---- MODULE Spec2Model ----
(***************************************************************************)
(* Model of nash.py: the four functions row_maximin, column_minimax,       *)
(* row_and_column_elimination and find_saddle_point, over numpy 2-D        *)
(* arrays.  A call is a run of the state machine: Call chooses the         *)
(* function and its argument, the other actions are the steps of the       *)
(* called function, and pc = "done" is the moment it returns or raises.    *)
(* Indices are 0-based as in Python.                                       *)
(***************************************************************************)
EXTENDS Integers, Sequences, FiniteSets

\* Largest number of rows / columns of the bounded input matrices.
MaxRows == 3
MaxCols == 3
\* The pass counter saturates here (it only matters if the loop could spin).
MaxPasses == 2
\* Entries of the bounded input matrices (the scenarios below have others).
Payoffs == {0, 1}

(***************************************************************************)
(* numpy arrays.  A 2-D array is [shape, a] with shape[0] rows and         *)
(* shape[1] columns and a[i][j] its entries; a 1-D array is [n, v].        *)
(***************************************************************************)
Shape(r, c) == [k \in 0..1 |-> IF k = 0 THEN r ELSE c]

Matrix(r, c) == { [shape |-> Shape(r, c), a |-> f] :
                    f \in [0..(r - 1) -> [0..(c - 1) -> Payoffs]] }

\* np.array(list of lists): rows is a sequence of equally long sequences.
np_array(rows) ==
    LET r == Len(rows)
        c == IF r = 0 THEN 0 ELSE Len(rows[1])
    IN [shape |-> Shape(r, c),
        a |-> [i \in 0..(r - 1) |-> [j \in 0..(c - 1) |-> rows[i + 1][j + 1]]]]

\* The matrices named in the specification's scenarios, and the 3x3 matrix
\* whose rows are all constant.
ScenarioA == np_array(<< <<1, 2>>, <<0, 3>> >>)
ScenarioB == np_array(<< <<1, -1, 3>>, <<2, 0, -2>>, <<-1, 4, -1>> >>)
ScenarioC == np_array(<< <<5>> >>)
ConstantRows == np_array(<< <<1, 1, 1>>, <<2, 2, 2>>, <<3, 3, 3>> >>)

Scenarios == {ScenarioA, ScenarioB, ScenarioC, ConstantRows}

\* Outcomes of a call.
ValueError == [kind |-> "ValueError"]
None == [kind |-> "None"]
Pending == [kind |-> "pending"]

MinOf(S) == CHOOSE x \in S : \A y \in S : x <= y
MaxOf(S) == CHOOSE x \in S : \A y \in S : x >= y

\* np.min(m, axis=1): the minimum of every row; a reduction over an axis of
\* length zero has no identity and raises ValueError.
np_min_axis1(m) ==
    IF m.shape[1] = 0 THEN ValueError
    ELSE [kind |-> "array", n |-> m.shape[0],
          v |-> [i \in 0..(m.shape[0] - 1) |->
                    MinOf({ m.a[i][j] : j \in 0..(m.shape[1] - 1) })]]

\* np.max(m, axis=0): the maximum of every column.
np_max_axis0(m) ==
    IF m.shape[0] = 0 THEN ValueError
    ELSE [kind |-> "array", n |-> m.shape[1],
          v |-> [j \in 0..(m.shape[1] - 1) |->
                    MaxOf({ m.a[i][j] : i \in 0..(m.shape[0] - 1) })]]

\* Variant of np_argmax: the last occurrence of the maximum.
np_argmax_last(arr) ==
    IF arr.n = 0 THEN ValueError
    ELSE LET top == MaxOf({ arr.v[k] : k \in 0..(arr.n - 1) })
         IN [kind |-> "index",
             i |-> CHOOSE i \in 0..(arr.n - 1) :
                      /\ arr.v[i] = top
                      /\ \A k \in (i + 1)..(arr.n - 1) : arr.v[k] # top]

\* np.argmax(arr): the first occurrence of the maximum; ValueError when empty.
np_argmax(arr) ==
    IF arr.n = 0 THEN ValueError
    ELSE LET top == MaxOf({ arr.v[k] : k \in 0..(arr.n - 1) })
         IN [kind |-> "index",
             i |-> CHOOSE i \in 0..(arr.n - 1) :
                      /\ arr.v[i] = top
                      /\ \A k \in 0..(i - 1) : arr.v[k] # top]

\* Variant of np_argmin: the last occurrence of the minimum.
np_argmin_last(arr) ==
    IF arr.n = 0 THEN ValueError
    ELSE LET low == MinOf({ arr.v[k] : k \in 0..(arr.n - 1) })
         IN [kind |-> "index",
             i |-> CHOOSE i \in 0..(arr.n - 1) :
                      /\ arr.v[i] = low
                      /\ \A k \in (i + 1)..(arr.n - 1) : arr.v[k] # low]

\* np.argmin(arr): the first occurrence of the minimum; ValueError when empty.
np_argmin(arr) ==
    IF arr.n = 0 THEN ValueError
    ELSE LET low == MinOf({ arr.v[k] : k \in 0..(arr.n - 1) })
         IN [kind |-> "index",
             i |-> CHOOSE i \in 0..(arr.n - 1) :
                      /\ arr.v[i] = low
                      /\ \A k \in 0..(i - 1) : arr.v[k] # low]

\* The k-th smallest element (k from 0) of a set of naturals.
Kth(S, k) == CHOOSE x \in S : Cardinality({ y \in S : y < x }) = k

\* np.delete(m, obj, axis): a new array without the rows (axis 0) or the
\* columns (axis 1) whose indices are in obj; the rest keep their order.
np_delete(m, obj, axis) ==
    LET kept == (0..(m.shape[axis] - 1)) \ obj
        n == Cardinality(kept)
    IN IF axis = 0
       THEN [shape |-> Shape(n, m.shape[1]),
             a |-> [i \in 0..(n - 1) |-> m.a[Kth(kept, i)]]]
       ELSE [shape |-> Shape(m.shape[0], n),
             a |-> [i \in 0..(m.shape[0] - 1) |->
                      [j \in 0..(n - 1) |-> m.a[i][Kth(kept, j)]]]]

(***************************************************************************)
(* row_maximin and column_minimax                                          *)
(***************************************************************************)
row_maximin(m) ==
    LET row_min == np_min_axis1(m)
    IN IF row_min.kind = "ValueError" THEN ValueError
       ELSE LET row_maximin_idx == np_argmax(row_min)
            IN IF row_maximin_idx.kind = "ValueError" THEN ValueError
               ELSE [kind |-> "pair", idx |-> row_maximin_idx.i,
                     value |-> row_min.v[row_maximin_idx.i]]

column_minimax(m) ==
    LET col_max == np_max_axis0(m)
    IN IF col_max.kind = "ValueError" THEN ValueError
       ELSE LET col_minimax_idx == np_argmin(col_max)
            IN IF col_minimax_idx.kind = "ValueError" THEN ValueError
               ELSE [kind |-> "pair", idx |-> col_minimax_idx.i,
                     value |-> col_max.v[col_minimax_idx.i]]

(***************************************************************************)
(* row_and_column_elimination                                              *)
(***************************************************************************)
\* The loop condition.
WhileCond(m) == m.shape[0] > 2 /\ m.shape[1] > 2

\* The list comprehension of line 36: the indices of the rows every entry of
\* which is <= the row's minimum (as a set: np.delete ignores the order).
rows_comprehension(m, row_min) ==
    { i \in 0..(row_min.n - 1) :
        \A j \in 0..(m.shape[1] - 1) : m.a[i][j] <= row_min.v[i] }

\* Variant of cols_comprehension: the strict test, which no column passes.
cols_comprehension_strict(m, col_max) ==
    { j \in 0..(col_max.n - 1) :
        \A i \in 0..(m.shape[0] - 1) : m.a[i][j] < col_max.v[j] }

\* Variant of cols_comprehension: the test symmetric to the rows' (>= the
\* maximum, which only constant columns pass).
cols_comprehension_constant(m, col_max) ==
    { j \in 0..(col_max.n - 1) :
        \A i \in 0..(m.shape[0] - 1) : m.a[i][j] >= col_max.v[j] }

\* The list comprehension of line 41: the indices of the columns every entry
\* of which is <= the column's maximum.
cols_comprehension(m, col_max) ==
    { j \in 0..(col_max.n - 1) :
        \A i \in 0..(m.shape[0] - 1) : m.a[i][j] <= col_max.v[j] }

\* The break test at the end of the loop body.
BreakCond(m) == m.shape[0] <= 2 /\ m.shape[1] <= 2

\* Lines 35-36: the list of dominated rows, or ValueError when np.min meets
\* rows of length zero.
DominatedRows(m) ==
    LET row_min == np_min_axis1(m)
    IN IF row_min.kind = "ValueError" THEN ValueError
       ELSE [kind |-> "list", l |-> rows_comprehension(m, row_min)]

\* Lines 40-41: the list of dominated columns, or ValueError when np.max
\* meets columns of length zero.
DominatedCols(m) ==
    LET col_max == np_max_axis0(m)
    IN IF col_max.kind = "ValueError" THEN ValueError
       ELSE [kind |-> "list", l |-> cols_comprehension(m, col_max)]

(***************************************************************************)
(* find_saddle_point, after the reducer has returned                       *)
(***************************************************************************)
\* The size check on the reduced matrix.
TooSmall(reduced) == reduced.shape[0] < 2 \/ reduced.shape[1] < 2

SaddleTest(reduced) ==
    IF TooSmall(reduced) THEN None
    ELSE LET r == row_maximin(reduced)
             c == column_minimax(reduced)
         IN IF r.kind = "ValueError" \/ c.kind = "ValueError" THEN ValueError
            ELSE IF r.value = c.value
                 THEN [kind |-> "tuple", row_idx |-> r.idx, col_idx |-> c.idx,
                       value |-> r.value]
                 ELSE None

(***************************************************************************)
(* The state machine                                                       *)
(***************************************************************************)
VARIABLES
    fn,             \* the function called
    arg,            \* the matrix it was called with
    orig,           \* the argument of the first call of this run
    rerun,          \* TRUE when arg is the matrix a reducer call returned
    pc,             \* "idle", "call", "while", "rows", "delete_rows", "cols",
                    \* "delete_cols", "return", "done"
    payoff_matrix,  \* the reducer's local variable
    dominated_rows, \* the reducer's local variable (line 36)
    dominated_cols, \* the reducer's local variable (line 41)
    passes,         \* loop bodies executed in this call
    reduced_matrix, \* find_saddle_point's local: <<>> until assigned
    result          \* the outcome of the call

vars == <<fn, arg, orig, rerun, pc, payoff_matrix, dominated_rows, dominated_cols,
          passes, reduced_matrix, result>>

\* The lists of indices of the reducer's loop body.
lists == <<dominated_rows, dominated_cols>>

Functions == {"row_maximin", "column_minimax", "row_and_column_elimination",
              "find_saddle_point"}
Leaves == {"row_maximin", "column_minimax"}

\* Before the call: nothing chosen yet.
Init ==
    /\ fn = "none"
    /\ arg = np_array(<< >>)
    /\ orig = np_array(<< >>)
    /\ rerun = FALSE
    /\ pc = "idle"
    /\ payoff_matrix = np_array(<< >>)
    /\ dominated_rows = {}
    /\ dominated_cols = {}
    /\ passes = 0
    /\ reduced_matrix = << >>
    /\ result = Pending

\* The entry of function f called with matrix m.
Enter(f, m) ==
    /\ fn' = f
    /\ arg' = m
    /\ orig' = m
    /\ payoff_matrix' = m
    /\ pc' = IF f \in Leaves THEN "call" ELSE "while"

\* The caller calls one of the four functions with a matrix: any matrix
\* within the bounds, or one of the scenarios.
Call ==
    /\ pc = "idle"
    /\ \E f \in Functions :
          \/ \E r \in 0..MaxRows, c \in 0..MaxCols :
                \E m \in Matrix(r, c) : Enter(f, m)
          \/ \E m \in Scenarios : Enter(f, m)
    /\ UNCHANGED <<rerun, lists, passes, reduced_matrix, result>>

\* row_maximin(payoff_matrix), the whole function.
RowMaximin ==
    /\ pc = "call" /\ fn = "row_maximin"
    /\ result' = row_maximin(payoff_matrix)
    /\ pc' = "done"
    /\ UNCHANGED <<fn, arg, orig, rerun, payoff_matrix, lists, passes, reduced_matrix>>

\* column_minimax(payoff_matrix), the whole function.
ColumnMinimax ==
    /\ pc = "call" /\ fn = "column_minimax"
    /\ result' = column_minimax(payoff_matrix)
    /\ pc' = "done"
    /\ UNCHANGED <<fn, arg, orig, rerun, payoff_matrix, lists, passes, reduced_matrix>>

\* Variant of While: the body runs once before the condition is first tested.
While_body_first ==
    /\ pc = "while"
    /\ pc' = IF passes = 0 \/ WhileCond(payoff_matrix) THEN "rows" ELSE "return"
    /\ UNCHANGED <<fn, arg, orig, rerun, payoff_matrix, lists, passes, reduced_matrix,
                   result>>

\* The test of the while loop.
While ==
    /\ pc = "while"
    /\ pc' = IF WhileCond(payoff_matrix) THEN "rows" ELSE "return"
    /\ UNCHANGED <<fn, arg, orig, rerun, payoff_matrix, lists, passes, reduced_matrix,
                   result>>

\* Lines 35-36: row_min and the list of dominated rows.
Rows ==
    /\ pc = "rows"
    /\ passes' = IF passes < MaxPasses THEN passes + 1 ELSE passes
    /\ LET out == DominatedRows(payoff_matrix)
       IN IF out.kind = "ValueError"
          THEN /\ result' = ValueError
               /\ pc' = "done"
               /\ UNCHANGED dominated_rows
          ELSE /\ dominated_rows' = out.l
               /\ pc' = "delete_rows"
               /\ UNCHANGED result
    /\ UNCHANGED <<fn, arg, orig, rerun, payoff_matrix, dominated_cols, reduced_matrix>>

\* Line 37: the dominated rows are deleted.
DeleteRows ==
    /\ pc = "delete_rows"
    /\ payoff_matrix' = np_delete(payoff_matrix, dominated_rows, 0)
    /\ pc' = "cols"
    /\ UNCHANGED <<fn, arg, orig, rerun, lists, passes, reduced_matrix, result>>

\* Lines 40-41: col_max and the list of dominated columns.
Cols ==
    /\ pc = "cols"
    /\ LET out == DominatedCols(payoff_matrix)
       IN IF out.kind = "ValueError"
          THEN /\ result' = ValueError
               /\ pc' = "done"
               /\ UNCHANGED dominated_cols
          ELSE /\ dominated_cols' = out.l
               /\ pc' = "delete_cols"
               /\ UNCHANGED result
    /\ UNCHANGED <<fn, arg, orig, rerun, payoff_matrix, dominated_rows, passes,
                   reduced_matrix>>

\* Lines 42-46: the dominated columns are deleted; the break test.
DeleteCols ==
    /\ pc = "delete_cols"
    /\ payoff_matrix' = np_delete(payoff_matrix, dominated_cols, 1)
    /\ pc' = IF BreakCond(payoff_matrix') THEN "return" ELSE "while"
    /\ UNCHANGED <<fn, arg, orig, rerun, lists, passes, reduced_matrix, result>>

\* return payoff_matrix, to a direct caller of the reducer.
Return ==
    /\ pc = "return" /\ fn = "row_and_column_elimination"
    /\ result' = [kind |-> "matrix", m |-> payoff_matrix]
    /\ pc' = "done"
    /\ UNCHANGED <<fn, arg, orig, rerun, payoff_matrix, lists, passes, reduced_matrix>>

\* find_saddle_point from the reducer's return to its own.
FindSaddlePoint ==
    /\ pc = "return" /\ fn = "find_saddle_point"
    /\ reduced_matrix' = <<payoff_matrix>>
    /\ result' = SaddleTest(payoff_matrix)
    /\ pc' = "done"
    /\ UNCHANGED <<fn, arg, orig, rerun, payoff_matrix, lists, passes>>

\* The caller passes the matrix the reducer returned to the reducer again
\* (a second call of row_and_column_elimination, on the first one's result).
Rerun ==
    /\ pc = "done" /\ fn = "row_and_column_elimination"
    /\ ~rerun /\ result.kind = "matrix"
    /\ arg' = result.m
    /\ payoff_matrix' = result.m
    /\ rerun' = TRUE
    /\ dominated_rows' = {}
    /\ dominated_cols' = {}
    /\ passes' = 0
    /\ result' = Pending
    /\ pc' = "while"
    /\ UNCHANGED <<fn, orig, reduced_matrix>>

Next ==
    \/ Call
    \/ RowMaximin
    \/ ColumnMinimax
    \/ While
    \/ Rows
    \/ DeleteRows
    \/ Cols
    \/ DeleteCols
    \/ Return
    \/ FindSaddlePoint
    \/ Rerun

Spec == Init /\ [][Next]_vars

(***************************************************************************)
(* The reducer alone, for its termination: row_and_column_elimination has  *)
(* just been called with a matrix, and every step of the called function   *)
(* is eventually executed (the interpreter does not stop in mid-function). *)
(***************************************************************************)
ReducerCalled ==
    /\ fn = "row_and_column_elimination"
    /\ \/ \E r \in 0..MaxRows, c \in 0..MaxCols : arg \in Matrix(r, c)
       \/ arg \in Scenarios
    /\ orig = arg
    /\ rerun = FALSE
    /\ pc = "while"
    /\ payoff_matrix = arg
    /\ dominated_rows = {}
    /\ dominated_cols = {}
    /\ passes = 0
    /\ reduced_matrix = << >>
    /\ result = Pending

ReducerSteps == While \/ Rows \/ DeleteRows \/ Cols \/ DeleteCols \/ Return

FairSpec == ReducerCalled /\ [][ReducerSteps]_vars /\ WF_vars(ReducerSteps)

(***************************************************************************)
(* Vocabulary of the properties                                            *)
(***************************************************************************)
Done == pc = "done"

NonEmpty(m) == m.shape[0] >= 1 /\ m.shape[1] >= 1
Large(m) == m.shape[0] > 2 /\ m.shape[1] > 2

RowIdx(m) == 0..(m.shape[0] - 1)
ColIdx(m) == 0..(m.shape[1] - 1)

\* v is the least entry of row i / the greatest entry of column j.
IsRowMinimum(m, i, v) ==
    /\ \E j \in ColIdx(m) : m.a[i][j] = v
    /\ \A j \in ColIdx(m) : m.a[i][j] >= v
IsColMaximum(m, j, v) ==
    /\ \E i \in RowIdx(m) : m.a[i][j] = v
    /\ \A i \in RowIdx(m) : m.a[i][j] <= v

ConstantRow(m, i) == \A j, k \in ColIdx(m) : m.a[i][j] = m.a[i][k]
ConstantCol(m, j) == \A i, k \in RowIdx(m) : m.a[i][j] = m.a[k][j]
NoConstantLine(m) ==
    /\ \A i \in RowIdx(m) : ~ConstantRow(m, i)
    /\ \A j \in ColIdx(m) : ~ConstantCol(m, j)

\* An entry that is the minimum of its row and the maximum of its column.
HasSaddleEntry(m) ==
    \E i \in RowIdx(m), j \in ColIdx(m) :
        /\ IsRowMinimum(m, i, m.a[i][j])
        /\ IsColMaximum(m, j, m.a[i][j])

FirstReducerCall == fn = "row_and_column_elimination" /\ ~rerun

(***************************************************************************)
(* C1 (as claimed): called with a matrix of at least one row and one       *)
(* column, the reducer never holds a matrix with zero rows or zero         *)
(* columns, neither after a pass nor as its result, and the matrix it      *)
(* returns has no more rows and no more columns than its argument.         *)
(***************************************************************************)
C1_ReducerKeepsAtLeastOneLine ==
    (FirstReducerCall /\ NonEmpty(arg)) =>
        /\ NonEmpty(payoff_matrix)
        /\ payoff_matrix.shape[0] <= arg.shape[0]
        /\ payoff_matrix.shape[1] <= arg.shape[1]
        /\ (Done /\ result.kind = "matrix") =>
              /\ NonEmpty(result.m)
              /\ result.m.shape[0] <= arg.shape[0]
              /\ result.m.shape[1] <= arg.shape[1]

(***************************************************************************)
(* C2 (as claimed): the reducer returns a matrix of more than 2 rows and   *)
(* more than 2 columns with no constant row and no constant column as it   *)
(* was given.                                                              *)
(***************************************************************************)
C2_ReducerReturnsIrreducibleUnchanged ==
    (FirstReducerCall /\ Done /\ Large(arg) /\ NoConstantLine(arg)) =>
        /\ result.kind = "matrix"
        /\ result.m = arg

(***************************************************************************)
(* C3 (as claimed): find_saddle_point returns a tuple exactly when the     *)
(* reduced matrix R has at least 2 rows and 2 columns and its maximin      *)
(* equals its minimax; the tuple is then (index of row_maximin(R), index   *)
(* of column_minimax(R), the common value); in every other case the call   *)
(* returns None.                                                           *)
(***************************************************************************)
SaddleOutcomeMatches(R) ==
    LET balanced == /\ R.shape[0] >= 2 /\ R.shape[1] >= 2
                    /\ row_maximin(R).value = column_minimax(R).value
    IN /\ (result.kind = "tuple") <=> balanced
       /\ balanced =>
            /\ result.row_idx = row_maximin(R).idx
            /\ result.value = row_maximin(R).value
            /\ result.col_idx = column_minimax(R).idx
            /\ result.value = column_minimax(R).value
       /\ ~balanced => result = None

C3_SaddleExactlyWhenBalanced ==
    (fn = "find_saddle_point" /\ Done) =>
        IF reduced_matrix = << >> THEN result = None
        ELSE SaddleOutcomeMatches(reduced_matrix[1])

\* C3, on the calls in which the reducer returned a matrix: the outcome is
\* as claimed.  (Holds; the claim fails only where the reducer raises.)
C3_SaddleExactlyWhenBalancedIfReduced ==
    (fn = "find_saddle_point" /\ Done /\ reduced_matrix # << >>) =>
        SaddleOutcomeMatches(reduced_matrix[1])

(***************************************************************************)
(* C4: the reducer's loop terminates: whenever control is at the loop      *)
(* test, the loop is eventually left, by return or by an exception.        *)
(***************************************************************************)
C4_LoopTerminates == (pc = "while") ~> (pc \in {"return", "done"})

\* C4's case: the reducer has returned from a call on Scenario B (3x3, no
\* constant row or column) after running the loop body.
C4_Witness ==
    /\ FirstReducerCall /\ Done /\ arg = ScenarioB
    /\ passes = 1 /\ result.kind = "matrix"

(***************************************************************************)
(* C5: on a matrix with at least one row and one column row_maximin        *)
(* returns (i, v) with v the minimum of row i, no row minimum greater      *)
(* than v, and i the first row whose minimum is v.                         *)
(***************************************************************************)
C5_RowMaximinFirstBest ==
    (fn = "row_maximin" /\ Done /\ NonEmpty(arg)) =>
        /\ result.kind = "pair"
        /\ result.idx \in RowIdx(arg)
        /\ IsRowMinimum(arg, result.idx, result.value)
        /\ \A k \in RowIdx(arg) : \A j \in ColIdx(arg) :
              IsRowMinimum(arg, k, arg.a[k][j]) =>
                  /\ arg.a[k][j] <= result.value
                  /\ (arg.a[k][j] = result.value => k >= result.idx)

\* C5's case: a tie between the returned row and a later one, after a row
\* with a smaller minimum.
C5_Witness ==
    /\ fn = "row_maximin" /\ Done /\ arg.shape[0] = 3 /\ arg.shape[1] >= 2
    /\ result.kind = "pair" /\ result.idx = 1
    /\ IsRowMinimum(arg, 2, result.value)
    /\ ~IsRowMinimum(arg, 0, result.value)

(***************************************************************************)
(* C6: on a matrix with at least one row and one column column_minimax     *)
(* returns (j, v) with v the maximum of column j, no column maximum        *)
(* smaller than v, and j the first column whose maximum is v.              *)
(***************************************************************************)
C6_ColumnMinimaxFirstBest ==
    (fn = "column_minimax" /\ Done /\ NonEmpty(arg)) =>
        /\ result.kind = "pair"
        /\ result.idx \in ColIdx(arg)
        /\ IsColMaximum(arg, result.idx, result.value)
        /\ \A k \in ColIdx(arg) : \A i \in RowIdx(arg) :
              IsColMaximum(arg, k, arg.a[i][k]) =>
                  /\ arg.a[i][k] >= result.value
                  /\ (arg.a[i][k] = result.value => k >= result.idx)

\* C6's case: a tie between the returned column and a later one, after a
\* column with a greater maximum.
C6_Witness ==
    /\ fn = "column_minimax" /\ Done /\ arg.shape[1] = 3 /\ arg.shape[0] >= 2
    /\ result.kind = "pair" /\ result.idx = 1
    /\ IsColMaximum(arg, 2, result.value)
    /\ ~IsColMaximum(arg, 0, result.value)

(***************************************************************************)
(* C7 (as claimed): on a 1x1 matrix [[v]] find_saddle_point returns the    *)
(* saddle point (0, 0, v).                                                 *)
(***************************************************************************)
C7_OneByOneHasSaddle ==
    (fn = "find_saddle_point" /\ Done
        /\ arg.shape[0] = 1 /\ arg.shape[1] = 1) =>
        /\ result.kind = "tuple"
        /\ result.row_idx = 0
        /\ result.col_idx = 0
        /\ result.value = arg.a[0][0]

(***************************************************************************)
(* C8 (as claimed): called with a matrix of zero rows or zero columns,     *)
(* row_maximin, column_minimax, the reducer and find_saddle_point end in   *)
(* an error and return nothing.                                            *)
(***************************************************************************)
C8_EmptyMatrixIsAnError ==
    (Done /\ ~rerun /\ ~NonEmpty(arg)) => result.kind = "ValueError"

(***************************************************************************)
(* C9: the reducer is idempotent: called again on the matrix it returned,  *)
(* it returns that matrix, same dimensions and same entries.               *)
(***************************************************************************)
C9_ReducerIdempotent ==
    (fn = "row_and_column_elimination" /\ rerun /\ Done) =>
        /\ result.kind = "matrix"
        /\ result.m = arg

\* C9's case: the second call has returned the matrix that the first call
\* had made by removing columns.
C9_Witness ==
    /\ fn = "row_and_column_elimination" /\ rerun /\ Done
    /\ result.kind = "matrix" /\ result.m = arg
    /\ Large(orig) /\ arg # orig

====
